---- MODULE Spec2Model ----
(***************************************************************************)
(* Model of src/data_ag.py: the three format readers (read_ARC,            *)
(* read_aeris, read_uwml) and the as-of merge (merge_datasets); and of     *)
(* src/geo_map.py: the mapping reader (arc_data_dataframe) and the         *)
(* map-generation driver (main).                                           *)
(*                                                                         *)
(* A table (pandas DataFrame) is a record [index, columns, rows]; a row is *)
(* a function from column name to value.  Timestamps are integers (seconds *)
(* on a common clock), NaT is the null timestamp, NaN the null value.      *)
(* Every function of the source is one action: the state holds the call's  *)
(* arguments, its return value, what it printed and whether an exception   *)
(* left it.                                                                *)
(***************************************************************************)
EXTENDS Integers, Sequences, FiniteSets, TLC

VARIABLES
    pc,         \* "start" before the call, "done" after it
    fn,         \* the function called
    aeris_df,   \* merge_datasets: left table  (rows [TIMESTAMP, val])
    uwml_df,    \* merge_datasets: right table (rows [TIMESTAMP, val])
    method,     \* merge_datasets: direction
    tolerance,  \* merge_datasets: tolerance, in seconds
    merged,     \* merge_datasets: the returned table
    file,       \* readers: the content found at filename
    header_row, \* read_ARC: the header row it detected (its local header_row)
    df,         \* readers: the returned table
    printed,    \* the diagnostics printed by the call
    raised,     \* TRUE when an exception left the call
    arc_raw,    \* main: the files of arc_raw/, one per date of arc_dates
    arcdate,    \* main: position of the loop in arc_dates
    arc_mapping \* main: the map files saved in arc_mapping/, in order of saving

vars == <<pc, fn, aeris_df, uwml_df, method, tolerance, merged, file, header_row, df,
          printed, raised, arc_raw, arcdate, arc_mapping>>

(***************************************************************************)
(* Bounds of the model.                                                    *)
(***************************************************************************)
MaxTime == 2        \* timestamps of the merged tables are 0..MaxTime
MaxRows == 2        \* rows per merged table

(***************************************************************************)
(* Null values.                                                            *)
(***************************************************************************)
NaT == -999999999   \* pandas' null timestamp (the least int64 in pandas)
NaN == -999999998   \* numpy's nan, the null of a value column

NoHeader == -1      \* header_row = None

NoTable == [raised |-> FALSE, rows |-> <<>>]

(***************************************************************************)
(* What a reader returns: [empty, indexed, columns, rows].  pd.DataFrame() *)
(* is the empty table; `indexed` says the index is the TIMESTAMP.          *)
(***************************************************************************)
EmptyDataFrame == [empty |-> TRUE, indexed |-> FALSE, columns |-> {}, rows |-> <<>>]

(***************************************************************************)
(* DataFrame.sort_values('TIMESTAMP'): ascending, nulls last.  pandas      *)
(* sorts with numpy's quicksort, which is an insertion sort below 17       *)
(* elements: rows of equal timestamp keep their input order.               *)
(***************************************************************************)
Before(a, b) == /\ a.TIMESTAMP # NaT
                /\ (b.TIMESTAMP = NaT \/ a.TIMESTAMP < b.TIMESTAMP)

RECURSIVE InsertRow(_, _)
InsertRow(sorted, r) ==
    IF sorted = <<>> THEN <<r>>
    ELSE IF Before(r, Head(sorted)) THEN <<r>> \o sorted
    ELSE <<Head(sorted)>> \o InsertRow(Tail(sorted), r)

RECURSIVE sort_values_from(_, _)
sort_values_from(frame, acc) ==
    IF frame = <<>> THEN acc
    ELSE sort_values_from(Tail(frame), InsertRow(acc, Head(frame)))

sort_values_unsorted(frame) == frame

sort_values(frame) == sort_values_from(frame, <<>>)

Keys(frame) == [i \in 1..Len(frame) |-> frame[i].TIMESTAMP]

HasNull(keys) == \E i \in 1..Len(keys) : keys[i] = NaT

IsMonotonic(keys) ==
    /\ ~HasNull(keys)
    /\ \A i \in 1..(Len(keys) - 1) : keys[i] <= keys[i + 1]

(***************************************************************************)
(* pandas' asof joins (pandas/_libs/join.pyx), as merge_asof runs them on  *)
(* the sorted keys.  Positions are 1-based here; 0 is pandas' -1 (no row). *)
(***************************************************************************)
RECURSIVE ScanUp(_, _, _)
\* while right_pos < right_size and right_values[right_pos] <= left_value
ScanUp(rv, lval, pos) ==
    IF pos <= Len(rv) /\ rv[pos] <= lval THEN ScanUp(rv, lval, pos + 1) ELSE pos

\* if has_tolerance: if diff > tolerance: right_indexer[left_pos] = -1
BeyondTolerance_exclusive(diff, tol) == diff >= tol

BeyondTolerance(diff, tol) == diff > tol

RECURSIVE backward_from(_, _, _, _, _)
backward_from(lv, rv, tol, left_pos, right_pos) ==
    IF left_pos > Len(lv) THEN <<>>
    ELSE LET start == IF right_pos < 1 THEN 1 ELSE right_pos
             found == ScanUp(rv, lv[left_pos], start) - 1
             kept  == IF found # 0 /\ BeyondTolerance(lv[left_pos] - rv[found], tol)
                      THEN 0 ELSE found
         IN  <<kept>> \o backward_from(lv, rv, tol, left_pos + 1, found)

asof_join_backward(lv, rv, tol) == backward_from(lv, rv, tol, 1, 1)

RECURSIVE ScanDown(_, _, _)
\* while right_pos >= 0 and right_values[right_pos] >= left_value
ScanDown(rv, lval, pos) ==
    IF pos >= 1 /\ rv[pos] >= lval THEN ScanDown(rv, lval, pos - 1) ELSE pos

RECURSIVE forward_from(_, _, _, _, _)
\* the left rows are visited last to first; the result is built back to front
forward_from(lv, rv, tol, left_pos, right_pos) ==
    IF left_pos < 1 THEN <<>>
    ELSE LET start == IF right_pos > Len(rv) THEN Len(rv) ELSE right_pos
             found == ScanDown(rv, lv[left_pos], start) + 1
             none  == found = Len(rv) + 1
             kept  == IF none THEN 0
                      ELSE IF BeyondTolerance(rv[found] - lv[left_pos], tol) THEN 0 ELSE found
         IN  forward_from(lv, rv, tol, left_pos - 1, found) \o <<kept>>

asof_join_forward(lv, rv, tol) == forward_from(lv, rv, tol, Len(lv), Len(rv))

asof_join_nearest(lv, rv, tol) ==
    LET bri == asof_join_backward(lv, rv, tol)
        fri == asof_join_forward(lv, rv, tol)
    IN  [i \in 1..Len(lv) |->
            IF bri[i] # 0 /\ fri[i] # 0
            THEN IF lv[i] - rv[bri[i]] <= rv[fri[i]] - lv[i] THEN bri[i] ELSE fri[i]
            ELSE IF bri[i] # 0 THEN bri[i] ELSE fri[i]]

RightIndexer(lv, rv, direction, tol) ==
    CASE direction = "backward" -> asof_join_backward(lv, rv, tol)
      [] direction = "forward"  -> asof_join_forward(lv, rv, tol)
      [] direction = "nearest"  -> asof_join_nearest(lv, rv, tol)

(***************************************************************************)
(* pd.merge_asof(left, right, on TIMESTAMP, direction, tolerance): raises  *)
(* on a negative tolerance, on a null key and on unsorted keys; otherwise  *)
(* one output row per left row, the right value NaN where nothing matched. *)
(***************************************************************************)
merge_asof(left, right, direction, tol) ==
    IF \/ tol < 0
       \/ ~IsMonotonic(Keys(left))
       \/ ~IsMonotonic(Keys(right))
    THEN [raised |-> TRUE, rows |-> <<>>]
    ELSE LET ri == RightIndexer(Keys(left), Keys(right), direction, tol)
         IN  [raised |-> FALSE,
              rows   |-> [i \in 1..Len(left) |->
                            [TIMESTAMP |-> left[i].TIMESTAMP,
                             val_aeris |-> left[i].val,
                             val_wx    |-> IF ri[i] = 0 THEN NaN ELSE right[ri[i]].val]]]

merge_datasets_result(a_df, u_df, direction, tol) ==
    merge_asof(sort_values(a_df), sort_values(u_df), direction, tol)

(***************************************************************************)
(* The inputs of merge_datasets: tables as the readers return them (a row  *)
(* whose timestamp did not parse carries NaT), in any row order.  The      *)
(* value of a row is its row number in the table it came from.             *)
(***************************************************************************)
Stamps == (0..MaxTime) \cup {NaT}

Frames == UNION {{[i \in 1..n |-> [TIMESTAMP |-> s[i], val |-> i]] : s \in [1..n -> Stamps]}
                 : n \in 0..MaxRows}

Directions == {"nearest", "forward", "backward"}

Tolerances == (-1)..MaxTime

InitMerge ==
    /\ pc = "start"
    /\ fn = "merge_datasets"
    /\ aeris_df \in Frames
    /\ uwml_df \in Frames
    /\ method \in Directions
    /\ tolerance \in Tolerances
    /\ merged = NoTable
    /\ file = [exists |-> FALSE, lines |-> <<>>]
    /\ header_row = NoHeader
    /\ df = EmptyDataFrame
    /\ printed = <<>>
    /\ raised = FALSE
    /\ arc_raw = <<>>
    /\ arcdate = 1
    /\ arc_mapping = <<>>

merge_datasets ==
    /\ pc = "start"
    /\ fn = "merge_datasets"
    /\ LET m == merge_datasets_result(aeris_df, uwml_df, method, tolerance)
       IN  /\ merged' = m
           /\ raised' = m.raised
           /\ printed' = IF m.raised THEN printed ELSE Append(printed, "Merged dataset")
    /\ pc' = "done"
    /\ UNCHANGED <<fn, aeris_df, uwml_df, method, tolerance, file, header_row, df,
                 arc_raw, arcdate, arc_mapping>>

NextMerge == merge_datasets

SpecMerge == InitMerge /\ [][NextMerge]_vars

(***************************************************************************)
(* Claims about merge_datasets.                                            *)
(***************************************************************************)
MergeDone == pc = "done" /\ fn = "merge_datasets"

Abs(x) == IF x < 0 THEN -x ELSE x

RightStamps == {uwml_df[j].TIMESTAMP : j \in 1..Len(uwml_df)}

\* the right timestamps a left row at t may be paired with, by direction
Eligible(t, direction) ==
    CASE direction = "backward" -> {s \in RightStamps : s <= t}
      [] direction = "forward"  -> {s \in RightStamps : s >= t}
      [] direction = "nearest"  -> RightStamps

\* the timestamps of the candidate right row: the eligible ones closest to t
Candidates(t, direction) ==
    {s \in Eligible(t, direction) :
        \A o \in Eligible(t, direction) : Abs(s - t) <= Abs(o - t)}

\* C1 (as claimed, for the tolerances >= 0 and the right tables without a
\* null timestamp): merge_datasets returns one row per left row, whatever the
\* left table: the output has as many rows as the left table, every left row
\* appears in it, and a left row without a right row within the tolerance is
\* there with a null right side.
C1_LeftRowCountPreserved ==
    (MergeDone /\ tolerance >= 0 /\ NaT \notin RightStamps) =>
        /\ ~raised
        /\ Len(merged.rows) = Len(aeris_df)
        /\ \A i \in 1..Len(aeris_df) :
              \E k \in 1..Len(merged.rows) :
                  /\ merged.rows[k].val_aeris = aeris_df[i].val
                  /\ merged.rows[k].TIMESTAMP = aeris_df[i].TIMESTAMP
                  /\ (\A s \in RightStamps : Abs(s - aeris_df[i].TIMESTAMP) > tolerance)
                        => merged.rows[k].val_wx = NaN

\* C2: for every left row and its candidate right row, a timestamp difference
\* equal to the tolerance gives a match (right side non-null), a difference
\* strictly greater than the tolerance gives a null right side.
C2_ToleranceBoundary ==
    (MergeDone /\ ~raised) =>
        \A k \in 1..Len(merged.rows) :
            \A s \in Candidates(merged.rows[k].TIMESTAMP, method) :
                LET diff == Abs(s - merged.rows[k].TIMESTAMP)
                IN  /\ diff = tolerance => merged.rows[k].val_wx # NaN
                    /\ diff > tolerance => merged.rows[k].val_wx = NaN

\* a merge in which one left row matches exactly at the tolerance, and another
\* has its candidate beyond it
C2_Witness ==
    /\ MergeDone /\ ~raised /\ tolerance > 0
    /\ \E k \in 1..Len(merged.rows) :
          /\ merged.rows[k].val_wx # NaN
          /\ Abs(uwml_df[merged.rows[k].val_wx].TIMESTAMP - merged.rows[k].TIMESTAMP)
                = tolerance
    /\ \E k \in 1..Len(merged.rows) :
          /\ merged.rows[k].val_wx = NaN
          /\ Candidates(merged.rows[k].TIMESTAMP, method) # {}

\* the pairing of C3: a matched right row is a candidate of its direction
\* (closest on either side, earliest at or after t, latest at or before t),
\* so never earlier than t for forward nor later than t for backward
Pairing ==
    (MergeDone /\ ~raised) =>
        \A k \in 1..Len(merged.rows) :
            LET t == merged.rows[k].TIMESTAMP
                w == merged.rows[k].val_wx
            IN  /\ w # NaN =>
                      /\ uwml_df[w].TIMESTAMP \in Candidates(t, method)
                      /\ method = "forward"  => uwml_df[w].TIMESTAMP >= t
                      /\ method = "backward" => uwml_df[w].TIMESTAMP <= t
                /\ w = NaN =>
                      \A s \in Candidates(t, method) : Abs(s - t) > tolerance

Reordered(frame, p) == [i \in 1..Len(frame) |-> frame[p[i]]]

\* p keeps the rows of equal timestamp in their relative order
KeepsTies(frame, p) ==
    \A i, j \in 1..Len(frame) :
        (i < j /\ frame[p[i]].TIMESTAMP = frame[p[j]].TIMESTAMP) => p[i] < p[j]

DigitChar == <<"0", "1", "2", "3", "4", "5", "6", "7", "8", "9">>

Digits == {DigitChar[i] : i \in 1..10}

Letters == {"a", "b", "n", "x"}

Whitespace == {" ", "\t"}

DigitVal(c) == (CHOOSE i \in 1..10 : DigitChar[i] = c) - 1

AllDigits(s) == \A i \in 1..Len(s) : s[i] \in Digits

RECURSIVE ToInt(_)
\* int(s) for a string of digits
ToInt(s) == IF s = <<>> THEN 0
            ELSE 10 * ToInt(SubSeq(s, 1, Len(s) - 1)) + DigitVal(s[Len(s)])

TwoDigits(n) == <<DigitChar[(n \div 10) + 1], DigitChar[(n % 10) + 1]>>

FourDigits(n) == TwoDigits(n \div 100) \o TwoDigits(n % 100)

ThreeDigits(n) == <<DigitChar[(n \div 100) + 1]>> \o TwoDigits(n % 100)

Contains(s, c) == \E i \in 1..Len(s) : s[i] = c

RECURSIVE Split(_, _)
\* str.split(sep)
Split(s, sep) ==
    IF ~Contains(s, sep) THEN <<s>>
    ELSE LET k == CHOOSE i \in 1..Len(s) : s[i] = sep /\ \A j \in 1..(i - 1) : s[j] # sep
         IN  <<SubSeq(s, 1, k - 1)>> \o Split(SubSeq(s, k + 1, Len(s)), sep)

RECURSIVE lstrip(_)
lstrip(s) == IF s # <<>> /\ Head(s) \in Whitespace THEN lstrip(Tail(s)) ELSE s

RECURSIVE rstrip(_)
rstrip(s) == IF s # <<>> /\ s[Len(s)] \in Whitespace
             THEN rstrip(SubSeq(s, 1, Len(s) - 1)) ELSE s

strip(s) == rstrip(lstrip(s))

(***************************************************************************)
(* Timestamps of the gas-analyzer and weather-station tables: the tuple    *)
(* <<year, month, day, hour, minute, second, millisecond>>, ordered        *)
(* lexicographically; the null timestamp is the empty tuple.               *)
(***************************************************************************)
NaTStamp == <<>>

RECURSIVE LexLess(_, _)
LexLess(a, b) ==
    IF a = <<>> \/ b = <<>> THEN FALSE
    ELSE \/ Head(a) < Head(b)
         \/ (Head(a) = Head(b) /\ LexLess(Tail(a), Tail(b)))

DaysInMonth(y, mo) ==
    IF mo = 2 THEN (IF (y % 4 = 0 /\ y % 100 # 0) \/ y % 400 = 0 THEN 29 ELSE 28)
    ELSE IF mo \in {4, 6, 9, 11} THEN 30 ELSE 31

\* what datetime(...) and strptime accept
ValidDate(y, mo, d) == y >= 1 /\ mo \in 1..12 /\ d >= 1 /\ d <= DaysInMonth(y, mo)

ValidClock(h, mi, sec) == h \in 0..23 /\ mi \in 0..59 /\ sec \in 0..59

(***************************************************************************)
(* DataFrame.sort_index() on a timestamp index: ascending, nulls last,     *)
(* rows of equal timestamp in their input order.                           *)
(***************************************************************************)
IndexBefore(a, b) ==
    /\ a.TIMESTAMP # NaTStamp
    /\ (b.TIMESTAMP = NaTStamp \/ LexLess(a.TIMESTAMP, b.TIMESTAMP))

RECURSIVE InsertByIndex(_, _)
InsertByIndex(sorted, r) ==
    IF sorted = <<>> THEN <<r>>
    ELSE IF IndexBefore(r, Head(sorted)) THEN <<r>> \o sorted
    ELSE <<Head(sorted)>> \o InsertByIndex(Tail(sorted), r)

RECURSIVE sort_index_from(_, _)
sort_index_from(rows, acc) ==
    IF rows = <<>> THEN acc
    ELSE sort_index_from(Tail(rows), InsertByIndex(acc, Head(rows)))

sort_index_missing(rows) == rows

sort_index(rows) == sort_index_from(rows, <<>>)

\* the outcome of a reader's try block: a table, or the exception raised in it
Returned(table) == [exception |-> "", table |-> table]
Raising(e) == [exception |-> e, table |-> EmptyDataFrame]

(***************************************************************************)
(* The except clause of the three readers:                                 *)
(*     except Exception as e: print(f"Error reading ..."); return          *)
(*     pd.DataFrame()                                                      *)
(* `outcome` is what the try block did; the result is what the caller      *)
(* observes: the table returned, the message printed, the exception (if    *)
(* any) that reaches it.                                                   *)
(***************************************************************************)
except_Exception_reraise(outcome, loaded) ==
    IF outcome.exception = ""
    THEN [table |-> outcome.table, message |-> loaded, raised |-> FALSE]
    ELSE [table |-> outcome.table, message |-> "", raised |-> TRUE]

except_Exception(outcome, loaded) ==
    IF outcome.exception = ""
    THEN [table |-> outcome.table, message |-> loaded, raised |-> FALSE]
    ELSE [table   |-> EmptyDataFrame,
          message |-> "Error reading",
          raised  |-> FALSE]

(***************************************************************************)
(* A file is [exists, lines, ...].  A line of a CSV file is [columns,      *)
(* cell, fields]: the column names it gives when read_csv takes it as the  *)
(* header, the text of its timestamp cell when it is a data row, and       *)
(* fields = "extra" when it has more fields than the header (a bad line).  *)
(***************************************************************************)
HeaderLine(columns) == [columns |-> columns, cell |-> <<"x">>, fields |-> "ok"]

DataLine(cell, fields) == [columns |-> {"data"}, cell |-> cell, fields |-> fields]

RECURSIVE RowsOf(_, _)
\* the data rows in file order, each with its raw line number
RowsOf(lines, nums) ==
    IF nums = {} THEN <<>>
    ELSE LET n == CHOOSE m \in nums : \A o \in nums : m <= o
         IN  <<[line |-> n, cell |-> lines[n].cell]>> \o RowsOf(lines, nums \ {n})

(***************************************************************************)
(* read_aeris.                                                             *)
(***************************************************************************)
\* 'MM/DD/YYYY HH:MM:SS.mmm', the form the analyzer writes
FormatAeris(t) ==
    TwoDigits(t[2]) \o <<"/">> \o TwoDigits(t[3]) \o <<"/">> \o FourDigits(t[1])
    \o <<" ">> \o TwoDigits(t[4]) \o <<":">> \o TwoDigits(t[5]) \o <<":">>
    \o TwoDigits(t[6]) \o <<".">> \o ThreeDigits(t[7])

\* pd.to_datetime(text, format='%m/%d/%Y %H:%M:%S.%f', errors='coerce')
to_datetime_coerce(text) ==
    LET halves == Split(text, " ")
        date   == Split(halves[1], "/")
        clock  == Split(halves[2], ":")
        secs   == Split(clock[3], ".")
        shaped == /\ Len(halves) = 2
                  /\ Len(date) = 3 /\ Len(clock) = 3 /\ Len(secs) = 2
                  /\ \A f \in {date[1], date[2], clock[1], clock[2], secs[1]} :
                        Len(f) = 2 /\ AllDigits(f)
                  /\ Len(date[3]) = 4 /\ AllDigits(date[3])
                  /\ Len(secs[2]) = 3 /\ AllDigits(secs[2])
    IN  IF ~shaped THEN NaTStamp
        ELSE LET y == ToInt(date[3])  mo == ToInt(date[1])  d == ToInt(date[2])
                 h == ToInt(clock[1]) mi == ToInt(clock[2]) sec == ToInt(secs[1])
             IN  IF ValidDate(y, mo, d) /\ ValidClock(h, mi, sec)
                 THEN <<y, mo, d, h, mi, sec, ToInt(secs[2])>>
                 ELSE NaTStamp

\* pd.read_csv(filename, sep=',', skipfooter=1, on_bad_lines='skip',
\* engine='python'): line 1 is the header; the numbers of the raw lines kept
\* as data rows
DataLines(lines) ==
    {n \in 2..(Len(lines) - 1) : lines[n].fields # "extra"}

read_aeris_try(f) ==
    IF ~f.exists THEN Raising("FileNotFoundError")
    ELSE IF f.lines = <<>> THEN Raising("EmptyDataError")
    ELSE LET columns == f.lines[1].columns
             raw     == RowsOf(f.lines, DataLines(f.lines))
         IN  IF "Time Stamp" \notin columns THEN Raising("KeyError")
             ELSE LET stamped == [i \in 1..Len(raw) |->
                                    [TIMESTAMP |-> to_datetime_coerce(raw[i].cell),
                                     line      |-> raw[i].line]]
                  IN  Returned([empty   |-> FALSE,
                                indexed |-> TRUE,
                                columns |-> columns,
                                rows    |-> sort_index(stamped)])

read_aeris ==
    /\ pc = "start"
    /\ fn = "read_aeris"
    /\ LET seen == except_Exception(read_aeris_try(file), "Loaded Aeris")
       IN  /\ df' = seen.table
           /\ printed' = Append(printed, seen.message)
           /\ raised' = seen.raised
    /\ pc' = "done"
    /\ UNCHANGED <<fn, aeris_df, uwml_df, method, tolerance, merged, file, header_row,
                 arc_raw, arcdate, arc_mapping>>

(***************************************************************************)
(* read_uwml.                                                              *)
(***************************************************************************)
SkipRows == 3

UTCColumns == {"UTC hhmmss", "UTC Year", "UTC Month", "UTC Day"}

\* 'HHMMSS*YYYYMMDD', the form the logger writes
FormatUwml(t) ==
    TwoDigits(t[4]) \o TwoDigits(t[5]) \o TwoDigits(t[6]) \o <<"*">>
    \o FourDigits(t[1]) \o TwoDigits(t[2]) \o TwoDigits(t[3])

\* datetime.strptime(dt_string, '%Y%m%d%H%M%S') on a string of 14 digits or a
\* string that is not all digits: the value, or ValueError
strptime(s) ==
    IF Len(s) = 14 /\ AllDigits(s)
    THEN LET y  == ToInt(SubSeq(s, 1, 4))    mo  == ToInt(SubSeq(s, 5, 6))
             d  == ToInt(SubSeq(s, 7, 8))    h   == ToInt(SubSeq(s, 9, 10))
             mi == ToInt(SubSeq(s, 11, 12))  sec == ToInt(SubSeq(s, 13, 14))
         IN  IF ValidDate(y, mo, d) /\ ValidClock(h, mi, sec)
             THEN [error |-> "", value |-> <<y, mo, d, h, mi, sec, 0>>]
             ELSE [error |-> "ValueError", value |-> NaTStamp]
    ELSE [error |-> "ValueError", value |-> NaTStamp]

parse_uwml_timestamp(pc_time) ==
    LET parts == Split(pc_time, "*")
    IN  IF Len(parts) < 2 THEN [error |-> "IndexError", value |-> NaTStamp]
        ELSE LET time == parts[1]     \* HHMMSS
                 date == parts[2]     \* YYYYMMDD
             IN  strptime(date \o time)

read_uwml_try(f) ==
    IF ~f.exists THEN Raising("FileNotFoundError")
    ELSE IF Len(f.lines) <= SkipRows THEN Raising("EmptyDataError")
    ELSE LET columns == f.lines[SkipRows + 1].columns
             raw     == RowsOf(f.lines, (SkipRows + 2)..Len(f.lines))
             parsed  == [i \in 1..Len(raw) |-> parse_uwml_timestamp(raw[i].cell)]
         IN  IF "PC" \notin columns THEN Raising("KeyError")
             ELSE IF \E i \in 1..Len(raw) : parsed[i].error # ""
             THEN \* df['PC'].apply(...) stops at the first row that raises
                  Raising(parsed[CHOOSE i \in 1..Len(raw) :
                                    /\ parsed[i].error # ""
                                    /\ \A j \in 1..(i - 1) : parsed[j].error = ""].error)
             ELSE IF ~(UTCColumns \subseteq columns) THEN Raising("KeyError")
             ELSE LET stamped == [i \in 1..Len(raw) |->
                                    [TIMESTAMP |-> parsed[i].value,
                                     line      |-> raw[i].line]]
                  IN  Returned([empty   |-> FALSE,
                                indexed |-> TRUE,
                                columns |-> (columns \ {"PC"}) \ UTCColumns,
                                rows    |-> sort_index(stamped)])

read_uwml ==
    /\ pc = "start"
    /\ fn = "read_uwml"
    /\ LET seen == except_Exception(read_uwml_try(file), "Loaded UWML WX")
       IN  /\ df' = seen.table
           /\ printed' = Append(printed, seen.message)
           /\ raised' = seen.raised
    /\ pc' = "done"
    /\ UNCHANGED <<fn, aeris_df, uwml_df, method, tolerance, merged, file, header_row,
                 arc_raw, arcdate, arc_mapping>>

(***************************************************************************)
(* read_ARC.  The file is [exists, lines, table]: `lines` are the raw      *)
(* lines the header heuristics scan, `table` is what pd.read_csv builds    *)
(* from the lines under the header row it is given: [columns, rows], the   *)
(* column names (already without surrounding blanks) and the raw numbers   *)
(* of each data row.                                                       *)
(***************************************************************************)
NoDate == <<>>      \* start_date = None

SecondsPerDay == 86400

\* re.match(r"^(\d{4}),(\d{1,2}),(\d{1,2}),(\d{4}),(\d{1,2}),(\d{1,2})$", ln.strip())
MatchesDate(ln) ==
    LET g == Split(strip(ln), ",")
    IN  /\ Len(g) = 6
        /\ \A i \in 1..6 : AllDigits(g[i])
        /\ Len(g[1]) = 4 /\ Len(g[4]) = 4
        /\ \A i \in {2, 3, 5, 6} : Len(g[i]) \in 1..2

\* the first line holding the start and end dates: its <<y, mo, d>>, NoDate
\* when no line matches, ValueError when datetime(y, mo, d) refuses the numbers
find_start_date(lines) ==
    IF \A i \in 1..Len(lines) : ~MatchesDate(lines[i])
    THEN [error |-> "", value |-> NoDate]
    ELSE LET k == CHOOSE i \in 1..Len(lines) :
                     MatchesDate(lines[i]) /\ \A j \in 1..(i - 1) : ~MatchesDate(lines[j])
             g == Split(strip(lines[k]), ",")
             y == ToInt(g[1])  mo == ToInt(g[2])  d == ToInt(g[3])
         IN  IF ValidDate(y, mo, d) THEN [error |-> "", value |-> <<y, mo, d>>]
             ELSE [error |-> "ValueError", value |-> NoDate]

HasLetter(ln) == \E i \in 1..Len(ln) : ln[i] \in Letters

\* re.match(r'^[-+]?\d', next_ln)
StartsWithNumber(next_ln) ==
    \/ Len(next_ln) >= 1 /\ next_ln[1] \in Digits
    \/ Len(next_ln) >= 2 /\ next_ln[1] \in {"-", "+"} /\ next_ln[2] \in Digits

NextNonEmpty_adjacent(lines, j) == j

RECURSIVE NextNonEmpty(_, _)
\* while j < len(lines) and lines[j].strip() == '': j += 1      (j is 0-based)
NextNonEmpty(lines, j) ==
    IF j < Len(lines) /\ strip(lines[j + 1]) = <<>>
    THEN NextNonEmpty(lines, j + 1) ELSE j

RECURSIVE find_header_from(_, _)
\* for i, ln in enumerate(lines[:-1]): ...                      (i is 0-based)
find_header_from(lines, i) ==
    IF i >= Len(lines) - 1 THEN NoHeader
    ELSE LET ln == lines[i + 1]
             j  == NextNonEmpty(lines, i + 1)
         IN  IF ~Contains(ln, ",") THEN find_header_from(lines, i + 1)
             ELSE IF ~HasLetter(ln) THEN find_header_from(lines, i + 1)
             ELSE IF j >= Len(lines) THEN find_header_from(lines, i + 1)
             ELSE LET next_ln == lstrip(lines[j + 1])
                  IN  IF StartsWithNumber(next_ln) /\ Contains(next_ln, ",")
                      THEN i
                      ELSE find_header_from(lines, i + 1)

find_header_row(lines) == find_header_from(lines, 0)

\* na_values=[-99999.0, -99999] of pd.read_csv
na_values == {-99999}

\* df.replace([-99999.0, -99999, -77777, -88888], np.nan)
Sentinels == {-99999, -77777, -88888}

read_csv(table) ==
    [columns |-> table.columns,
     rows    |-> [i \in 1..Len(table.rows) |->
                    [line  |-> i,
                     cells |-> [c \in table.columns |->
                                  IF table.rows[i][c] \in na_values THEN NaN
                                  ELSE table.rows[i][c]]]]]

DateColumns == {"Year", "Month", "Day", "Hour", "Minute", "Second"}

\* days are numbered in calendar order
DayNumber(y, mo, d) == (y - 2000) * 372 + (mo - 1) * 31 + (d - 1)

\* pd.to_datetime(start_date) + pd.to_timedelta(seconds, unit='s')
FromStartDate(start_date, seconds) ==
    IF seconds = NaN THEN NaT
    ELSE DayNumber(start_date[1], start_date[2], start_date[3]) * SecondsPerDay + seconds

\* pd.to_datetime(df[['Year','Month','Day','Hour','Minute','Second']]) on one
\* row: the timestamp, NaT when a component is null, ValueError when the
\* components are no date
FromComponents(cells) ==
    IF \E c \in DateColumns : cells[c] = NaN THEN [error |-> "", value |-> NaT]
    ELSE IF /\ ValidDate(cells["Year"], cells["Month"], cells["Day"])
            /\ ValidClock(cells["Hour"], cells["Minute"], cells["Second"])
    THEN [error |-> "",
          value |-> DayNumber(cells["Year"], cells["Month"], cells["Day"]) * SecondsPerDay
                    + cells["Hour"] * 3600 + cells["Minute"] * 60 + cells["Second"]]
    ELSE [error |-> "ValueError", value |-> NaT]

\* lines 89-107: the TIMESTAMP index, when one of the two strategies applies
UseStartDate(columns, start_date) ==
    "StartTime_seconds" \in columns /\ start_date # NoDate

UseComponents(columns, start_date) ==
    "StartTime_seconds" \notin columns /\ DateColumns \subseteq columns

\* df.sort_index() on the integer timestamps of the composite table
sort_index_int(rows) == sort_values(rows)

set_time_index(frame, start_date) ==
    IF UseStartDate(frame.columns, start_date)
    THEN [error   |-> "",
          indexed |-> TRUE,
          rows    |-> sort_index_int(
                        [i \in 1..Len(frame.rows) |->
                           [TIMESTAMP |-> FromStartDate(start_date,
                                              frame.rows[i].cells["StartTime_seconds"]),
                            line      |-> frame.rows[i].line,
                            cells     |-> frame.rows[i].cells]])]
    ELSE IF UseComponents(frame.columns, start_date)
    THEN LET made == [i \in 1..Len(frame.rows) |-> FromComponents(frame.rows[i].cells)]
         IN  IF \E i \in 1..Len(made) : made[i].error # ""
             THEN [error |-> "ValueError", indexed |-> FALSE, rows |-> <<>>]
             ELSE [error   |-> "",
                   indexed |-> TRUE,
                   rows    |-> sort_index_int(
                                 [i \in 1..Len(frame.rows) |->
                                    [TIMESTAMP |-> made[i].value,
                                     line      |-> frame.rows[i].line,
                                     cells     |-> frame.rows[i].cells]])]
    ELSE [error   |-> "",
          indexed |-> FALSE,
          rows    |-> [i \in 1..Len(frame.rows) |->
                         [TIMESTAMP |-> NaT,
                          line      |-> frame.rows[i].line,
                          cells     |-> frame.rows[i].cells]]]

\* df.replace(sentinels, np.nan): the values of the columns, not the index
replace_sentinels(cells) ==
    [c \in DOMAIN cells |-> IF cells[c] \in Sentinels THEN NaN ELSE cells[c]]

rename_map ==
    [c \in {"CH4_aeris313_ppm", "C2H6_aeris313_ppb", "true_WD_deg", "true_WS_m_s",
            "lat_DGPS_deg", "lon_DGPS_deg"} |->
        CASE c = "CH4_aeris313_ppm"  -> "CH4 (ppm)"
          [] c = "C2H6_aeris313_ppb" -> "C2H6 (ppb)"
          [] c = "true_WD_deg"       -> "GPSCorWindDirTrue (deg)"
          [] c = "true_WS_m_s"       -> "GPSCorWindSpeed (m/s)"
          [] c = "lat_DGPS_deg"      -> "Latitude (DD.ddd +N)"
          [] c = "lon_DGPS_deg"      -> "Longitude (DDD.ddd -W)"]

Renamed(c) == IF c \in DOMAIN rename_map THEN rename_map[c] ELSE c

\* df.rename(columns=existing_renames)
rename(cells) ==
    LET old == DOMAIN cells
    IN  [n \in {Renamed(c) : c \in old} |-> cells[CHOOSE c \in old : Renamed(c) = n]]

desired_names == {rename_map[c] : c \in DOMAIN rename_map}

\* existing_desired = [c for c in desired_names if c in df.columns]
\* if existing_desired: df = df[existing_desired].copy()
KeptColumns(columns) ==
    IF columns \cap desired_names # {} THEN columns \cap desired_names ELSE columns

read_ARC_try(f) ==
    IF ~f.exists THEN Raising("FileNotFoundError")
    ELSE LET start_date == find_start_date(f.lines)
             found_row  == find_header_row(f.lines)
         IN  IF start_date.error # "" THEN Raising(start_date.error)
             ELSE IF found_row = NoHeader THEN Raising("ValueError: no header row")
             ELSE LET frame   == read_csv(f.table)
                      timed   == set_time_index(frame, start_date.value)
                      columns == {Renamed(c) : c \in frame.columns}
                      kept    == KeptColumns(columns)
                  IN  IF timed.error # "" THEN Raising(timed.error)
                      ELSE Returned(
                             [empty   |-> FALSE,
                              indexed |-> timed.indexed,
                              columns |-> kept,
                              rows    |-> [i \in 1..Len(timed.rows) |->
                                  [TIMESTAMP |-> timed.rows[i].TIMESTAMP,
                                   line      |-> timed.rows[i].line,
                                   cells     |-> [c \in kept |->
                                       rename(replace_sentinels(timed.rows[i].cells))[c]]]]])

\* the local header_row when read_ARC ends: None until the loop of lines 52-68
\* has run and found a row
header_row_at_exit(f) ==
    IF ~f.exists \/ find_start_date(f.lines).error # "" THEN NoHeader
    ELSE find_header_row(f.lines)

read_ARC ==
    /\ pc = "start"
    /\ fn = "read_ARC"
    /\ LET seen == except_Exception(read_ARC_try(file), "Loaded ARC")
       IN  /\ df' = seen.table
           /\ printed' = Append(printed, seen.message)
           /\ raised' = seen.raised
    /\ header_row' = header_row_at_exit(file)
    /\ pc' = "done"
    /\ UNCHANGED <<fn, aeris_df, uwml_df, method, tolerance, merged, file,
                 arc_raw, arcdate, arc_mapping>>

(***************************************************************************)
(* The files given to read_aeris and read_uwml.                            *)
(***************************************************************************)
MaxFileRows == 3    \* data lines per file

SeqsUpTo(S, n) == UNION {[1..k -> S] : k \in 0..n}

\* the instants the instruments stamp
Instants == {<<2024, 8, 1, 18, 15, 44 + k, 25 * k>> : k \in 0..MaxTime}

AerisCells == {FormatAeris(t) : t \in Instants}
              \cup {<<"n", "a", "n">>,
                    <<"0", "8", "-", "0", "1", "-", "2", "0", "2", "4">>}

AerisHeaders == {{"Time Stamp", "CH4 (ppm)"}, {"CH4 (ppm)"}}

AerisFiles(n) ==
    {[exists |-> FALSE, lines |-> <<>>], [exists |-> TRUE, lines |-> <<>>]}
    \cup {[exists |-> TRUE, lines |-> <<HeaderLine(h)>> \o body] :
             h \in AerisHeaders,
             body \in SeqsUpTo({DataLine(c, k) : c \in AerisCells, k \in {"ok", "extra"}},
                               n)}

UwmlCells == {FormatUwml(t) : t \in Instants}
             \cup {<<"n", "a", "n">>,
                   <<"1", "5", "1", "8", "4", "4">>,
                   <<"1", "5", "1", "8", "4", "x", "*",
                     "2", "0", "2", "4", "0", "8", "0", "1">>}

UwmlHeaders == {{"PC", "Temp"} \cup UTCColumns,
                {"Temp"} \cup UTCColumns,
                {"PC", "Temp", "UTC Year"}}

Preambles == {[i \in 1..k |-> HeaderLine({"preamble"})] :
                 k \in (SkipRows - 1)..(SkipRows + 1)}

UwmlFiles(n) ==
    {[exists |-> FALSE, lines |-> <<>>], [exists |-> TRUE, lines |-> <<>>]}
    \cup {[exists |-> TRUE, lines |-> pre \o <<HeaderLine(h)>> \o body] :
             pre \in Preambles,
             h \in UwmlHeaders,
             body \in SeqsUpTo({DataLine(c, "ok") : c \in UwmlCells}, n)}

InitReader(name, files) ==
    /\ pc = "start"
    /\ fn = name
    /\ file \in files
    /\ aeris_df = <<>>
    /\ uwml_df = <<>>
    /\ method = "nearest"
    /\ tolerance = 1
    /\ merged = NoTable
    /\ header_row = NoHeader
    /\ df = EmptyDataFrame
    /\ printed = <<>>
    /\ raised = FALSE
    /\ arc_raw = <<>>
    /\ arcdate = 1
    /\ arc_mapping = <<>>

(***************************************************************************)
(* The files given to read_ARC.                                            *)
(***************************************************************************)
MaxArcLines == 3    \* raw lines per file, where the lines vary
MaxArcRows == 2     \* data rows per file, where the table varies

DateLine == <<"2", "0", "2", "4", ",", "8", ",", "4", ",",
              "2", "0", "2", "4", ",", "8", ",", "5">>

BadDateLine == <<"2", "0", "2", "4", ",", "0", ",", "4", ",",
                 "2", "0", "2", "4", ",", "8", ",", "5">>

NamesLine == <<"a", ",", " ", "b">>

NumbersLine == <<"1", ",", " ", "2">>

ArcLineKinds ==
    {<<>>, <<" ">>, <<"a">>, <<"1">>, NamesLine, NumbersLine,
     <<"1", "a", ",">>, <<" ", "-", "1", ",", "2">>, <<"-", ",", "1">>,
     <<",", "1">>, DateLine, BadDateLine}

SecondsTable ==
    [columns |-> {"StartTime_seconds", "CH4_aeris313_ppm"},
     rows    |-> <<[c \in {"StartTime_seconds", "CH4_aeris313_ppm"} |->
                      IF c = "StartTime_seconds" THEN 3600 ELSE 7]>>]

\* a table whose Year..Second columns are no date
BadComponentsTable ==
    [columns |-> DateColumns,
     rows    |-> <<[c \in DateColumns |-> IF c = "Year" THEN -77777 ELSE 1]>>]

ArcFilesByLines(n) ==
    {[exists |-> FALSE, lines |-> <<>>, table |-> SecondsTable]}
    \cup {[exists |-> TRUE, lines |-> l, table |-> t] :
             l \in SeqsUpTo(ArcLineKinds, n),
             t \in {SecondsTable, BadComponentsTable}}

ArcColumnSets ==
    {(s \cup y) \cup d : s \in {{}, {"StartTime_seconds"}},
                         y \in {{}, DateColumns, DateColumns \ {"Second"}},
                         d \in SUBSET {"CH4_aeris313_ppm", "RH"}}

CellChoices(c) ==
    CASE c = "StartTime_seconds" -> {0, 3600, -77777, -99999}
      [] c = "CH4_aeris313_ppm"  -> {7, -99999, -77777, -88888}
      [] c = "RH"                -> {7, -88888}
      [] c = "Year"              -> {2024, -99999, -77777}
      [] c = "Month"             -> {8}
      [] c = "Day"               -> {4}
      [] c = "Hour"              -> {1}
      [] c = "Minute"            -> {0}
      [] c = "Second"            -> {0}

RECURSIVE RawRows(_)
RawRows(columns) ==
    IF columns = {} THEN {<<>>}
    ELSE LET c == CHOOSE x \in columns : TRUE
         IN  {(c :> v) @@ r : v \in CellChoices(c), r \in RawRows(columns \ {c})}

\* under a detected header row there is a numeric line: a table has a column
\* and a data row
ArcTables(n) ==
    UNION {{[columns |-> cs, rows |-> rs] : rs \in SeqsUpTo(RawRows(cs), n) \ {<<>>}}
           : cs \in ArcColumnSets \ {{}}}

ArcPreambles == {<<NamesLine, NumbersLine>>, <<DateLine, NamesLine, NumbersLine>>}

ArcFilesByTable(n) ==
    {[exists |-> TRUE, lines |-> l, table |-> t] : l \in ArcPreambles, t \in ArcTables(n)}

InitReaders ==
    \/ InitReader("read_aeris", AerisFiles(MaxFileRows))
    \/ InitReader("read_uwml", UwmlFiles(MaxFileRows))
    \/ InitReader("read_ARC", ArcFilesByLines(MaxArcLines))

NextReaders == read_aeris \/ read_uwml \/ read_ARC

SpecReaders == InitReaders /\ [][NextReaders]_vars

InitARC == InitReader("read_ARC", ArcFilesByTable(MaxArcRows))

NextARC == read_ARC

SpecARC == InitARC /\ [][NextARC]_vars

(***************************************************************************)
(* Claims about the readers.                                               *)
(***************************************************************************)
ReaderDone(name) == pc = "done" /\ fn = name

\* line i (0-based) is a header row: it holds a comma and a letter, and the
\* first non-blank line after it starts, after leading blanks, with an
\* optionally signed digit and holds a comma
IsHeaderRow(lines, i) ==
    /\ i \in 0..(Len(lines) - 1)
    /\ Contains(lines[i + 1], ",")
    /\ HasLetter(lines[i + 1])
    /\ \E j \in (i + 1)..(Len(lines) - 1) :
          /\ strip(lines[j + 1]) # <<>>
          /\ \A k \in (i + 1)..(j - 1) : strip(lines[k + 1]) = <<>>
          /\ StartsWithNumber(lstrip(lines[j + 1]))
          /\ Contains(lines[j + 1], ",")

HasHeaderRow(lines) == \E i \in 0..(Len(lines) - 1) : IsHeaderRow(lines, i)

HasDateLine(lines) == \E i \in 1..Len(lines) : MatchesDate(lines[i])

\* the file-level failures: a missing file, content that cannot be parsed, a
\* missing expected column, no header row in a composite file
FileLevelFailure ==
    \/ ~file.exists
    \/ file.lines = <<>>
    \/ fn = "read_aeris" /\ "Time Stamp" \notin file.lines[1].columns
    \/ fn = "read_uwml" /\ Len(file.lines) <= SkipRows
    \/ fn = "read_uwml" /\ Len(file.lines) > SkipRows
          /\ ~(({"PC"} \cup UTCColumns) \subseteq file.lines[SkipRows + 1].columns)
    \/ fn = "read_ARC" /\ ~HasHeaderRow(file.lines)

\* C4: read_aeris, read_uwml and read_ARC never raise to their caller, and on
\* any file-level failure the call returns an empty table and prints a
\* diagnostic message.
C4_ReadersNeverRaise ==
    (pc = "done" /\ fn \in {"read_aeris", "read_uwml", "read_ARC"}) =>
        /\ ~raised
        /\ FileLevelFailure => (df = EmptyDataFrame /\ printed = <<"Error reading">>)

\* read_ARC called on a readable file without a header row
C4_Witness ==
    /\ ReaderDone("read_ARC")
    /\ file.exists /\ Len(file.lines) = MaxArcLines /\ ~HasHeaderRow(file.lines)
    /\ df = EmptyDataFrame /\ printed = <<"Error reading">> /\ ~raised

\* the data lines of a file whose header and layout are as expected, and the
\* instant each of them states
WellFormedFile ==
    /\ file.exists
    /\ \/ fn = "read_aeris" /\ Len(file.lines) >= 1
          /\ "Time Stamp" \in file.lines[1].columns
       \/ fn = "read_uwml" /\ Len(file.lines) > SkipRows
          /\ ({"PC"} \cup UTCColumns) \subseteq file.lines[SkipRows + 1].columns

RowLines ==
    IF fn = "read_aeris"
    THEN {n \in 2..(Len(file.lines) - 1) : file.lines[n].fields = "ok"}
    ELSE (SkipRows + 2)..Len(file.lines)

\* the timestamp the text of a cell states, NaTStamp when it states none
Stated(cell) ==
    IF fn = "read_aeris"
    THEN IF \E t \in Instants : cell = FormatAeris(t)
         THEN CHOOSE t \in Instants : cell = FormatAeris(t)
         ELSE NaTStamp
    ELSE IF \E t \in Instants : cell = FormatUwml(t)
         THEN LET t == CHOOSE u \in Instants : cell = FormatUwml(u)
              IN  <<t[1], t[2], t[3], t[4], t[5], t[6], 0>>
         ELSE NaTStamp

RowFailuresAreLocal(name) ==
    (ReaderDone(name) /\ WellFormedFile) =>
        \A n \in RowLines :
            IF Stated(file.lines[n].cell) = NaTStamp
            THEN \A k \in 1..Len(df.rows) :
                    df.rows[k].line = n => df.rows[k].TIMESTAMP = NaTStamp
            ELSE \E k \in 1..Len(df.rows) :
                    /\ df.rows[k].line = n
                    /\ df.rows[k].TIMESTAMP = Stated(file.lines[n].cell)

\* C5 (as claimed): in read_aeris and in read_uwml a row whose timestamp field
\* cannot be parsed gets a null timestamp or is skipped, and every other row
\* of the file is returned with its correct timestamp.
C5_RowFailuresAreLocal ==
    RowFailuresAreLocal("read_aeris") /\ RowFailuresAreLocal("read_uwml")

\* C6: where read_ARC runs its header detection, the detected header row is
\* the smallest index that is a header row; when no line is one, detection
\* fails and read_ARC returns an empty table.
C6_HeaderRowIsFirstMatch ==
    (ReaderDone("read_ARC") /\ file.exists /\ find_start_date(file.lines).error = "") =>
        IF HasHeaderRow(file.lines)
        THEN /\ IsHeaderRow(file.lines, header_row)
             /\ \A i \in 0..(header_row - 1) : ~IsHeaderRow(file.lines, i)
        ELSE /\ header_row = NoHeader
             /\ df = EmptyDataFrame /\ printed = <<"Error reading">>

\* a header row found with a blank line between it and the numeric line
C6_Witness ==
    /\ ReaderDone("read_ARC")
    /\ header_row = 0 /\ Len(file.lines) = 3
    /\ strip(file.lines[2]) = <<>>
    /\ ~df.empty

\* C7 (as claimed): for every composite file read_ARC parses, the columns of
\* the returned table are exactly the rename-map targets whose source column
\* is in the file, also when none of the six source columns is in the file.
C7_ColumnsAreRenameTargets ==
    (ReaderDone("read_ARC") /\ ~df.empty) =>
        df.columns = {rename_map[c] : c \in file.table.columns \cap DOMAIN rename_map}

RawSeconds(k) == file.table.rows[df.rows[k].line]["StartTime_seconds"]

\* C8 (as claimed): the timestamp is start date + seconds offset when there
\* are a StartTime_seconds column and a start date; otherwise it is composed
\* from Year..Second when these six columns exist; the table has no timestamp
\* index only when neither applies.
C8_StrategyOrder ==
    (ReaderDone("read_ARC") /\ ~df.empty) =>
        LET columns  == file.table.columns
            by_start == "StartTime_seconds" \in columns /\ HasDateLine(file.lines)
            by_parts == ~by_start /\ DateColumns \subseteq columns
        IN  /\ df.indexed <=> (by_start \/ by_parts)
            /\ by_start =>
                  \A k \in 1..Len(df.rows) :
                      RawSeconds(k) \notin Sentinels =>
                          df.rows[k].TIMESTAMP =
                              DayNumber(2024, 8, 4) * SecondsPerDay + RawSeconds(k)

\* C9 (as claimed): every sentinel of the raw data is null in the returned
\* table, no returned row carries a timestamp computed from a sentinel seconds
\* offset, and no other value of a retained column is altered.
C9_SentinelsAreNull ==
    (ReaderDone("read_ARC") /\ ~df.empty) =>
        \A k \in 1..Len(df.rows) :
            LET raw == file.table.rows[df.rows[k].line]
            IN  /\ \A c \in file.table.columns :
                      Renamed(c) \in df.columns =>
                          df.rows[k].cells[Renamed(c)] =
                              IF raw[c] \in Sentinels THEN NaN ELSE raw[c]
                /\ ("StartTime_seconds" \in file.table.columns /\ df.indexed
                        /\ raw["StartTime_seconds"] \in Sentinels)
                      => df.rows[k].TIMESTAMP = NaT

\* a gas-analyzer file as the instrument writes it: a header with the Time
\* Stamp column, then lines that each state an instant
ValidAerisFile ==
    /\ file.exists /\ Len(file.lines) >= 1
    /\ "Time Stamp" \in file.lines[1].columns
    /\ \A n \in 2..Len(file.lines) :
          /\ file.lines[n].fields = "ok"
          /\ \E t \in Instants : file.lines[n].cell = FormatAeris(t)

LastLineIsNoRow ==
    \A k \in 1..Len(df.rows) : df.rows[k].line # Len(file.lines)

MaxMapLines == 3    \* raw lines per file given to arc_data_dataframe

StartTime_seconds == <<"S", "t", "a", "r", "t", "T", "i", "m", "e", "_", "s", "e", "c", "o", "n", "d", "s">>

lat_DGPS_deg == <<"l", "a", "t", "_", "D", "G", "P", "S", "_", "d", "e", "g">>

lon_DGPS_deg == <<"l", "o", "n", "_", "D", "G", "P", "S", "_", "d", "e", "g">>

alt_msl_m == <<"a", "l", "t", "_", "m", "s", "l", "_", "m">>

\* the literal "StartTime_seconds, lat_DGPS_deg"
HeaderPrefix == StartTime_seconds \o <<",", " ">> \o lat_DGPS_deg

\* str.startswith
startswith(s, prefix) ==
    Len(s) >= Len(prefix) /\ SubSeq(s, 1, Len(prefix)) = prefix

RECURSIVE find_header_line_from(_, _)
\* for i, line in enumerate(f): if line.strip().startswith(...): ...; break
\* (i is 0-based; NoHeader: header_line_index was never bound)
find_header_line_from(lines, i) ==
    IF i >= Len(lines) THEN NoHeader
    ELSE IF startswith(strip(lines[i + 1]), HeaderPrefix) THEN i
    ELSE find_header_line_from(lines, i + 1)

header_line_index(lines) == find_header_line_from(lines, 0)

\* the texts read_csv makes null: na_values=-99999.0 in its two spellings and,
\* of pandas' default null texts, the empty field and 'nan'
map_na_values == {<<"-", "9", "9", "9", "9", "9", ".", "0">>,
                  <<"-", "9", "9", "9", "9", "9">>,
                  <<>>, <<"n", "a", "n">>}

NullCell == [isna |-> TRUE, text |-> <<>>]

ParseCell(text) == IF text \in map_na_values THEN NullCell
                   ELSE [isna |-> FALSE, text |-> text]

RECURSIVE skipinitialspace(_)
\* skipinitialspace=True: the blanks after a delimiter are not part of the field
skipinitialspace(s) ==
    IF s # <<>> /\ Head(s) = " " THEN skipinitialspace(Tail(s)) ELSE s

\* the fields of a line, split at the commas
Fields(line) ==
    LET g == Split(line, ",")
    IN  [k \in 1..Len(g) |-> skipinitialspace(g[k])]

\* the raw lines under the header that read_csv makes rows of: every line
\* that is not empty (skip_blank_lines)
MapDataLines(lines, h) == {n \in (h + 2)..Len(lines) : lines[n] # <<>>}

RECURSIVE ParsedRows(_, _, _)
\* the rows in file order; a line with fewer fields than the header is
\* filled with nulls (the files of the model have no line with more fields
\* than the header)
ParsedRows(lines, nums, ncols) ==
    IF nums = {} THEN <<>>
    ELSE LET n == CHOOSE m \in nums : \A o \in nums : m <= o
             f == Fields(lines[n])
         IN  <<[line  |-> n,
                cells |-> [c \in 1..ncols |->
                             IF c <= Len(f) THEN ParseCell(f[c]) ELSE NullCell]]>>
             \o ParsedRows(lines, nums \ {n}, ncols)

\* pd.read_csv(filepath, skiprows=header_line_index, header=0, ...)
map_read_csv(lines, h) ==
    LET columns == Fields(lines[h + 1])
    IN  [columns |-> columns,
         rows    |-> ParsedRows(lines, MapDataLines(lines, h), Len(columns))]

\* df.dropna(subset=[df.columns[1], df.columns[2]]): the second and the third
\* column, by position
dropna(rows) ==
    SelectSeq(rows, LAMBDA r : ~r.cells[2].isna /\ ~r.cells[3].isna)

arc_data_dataframe_call(f) ==
    IF ~f.exists THEN Raising("FileNotFoundError")
    ELSE LET h == header_line_index(f.lines)
         IN  IF h = NoHeader THEN Raising("UnboundLocalError")
             ELSE LET read == map_read_csv(f.lines, h)
                  IN  IF Len(read.columns) < 3 THEN Raising("IndexError")
                      ELSE LET kept == dropna(read.rows)
                           IN  Returned([empty   |-> kept = <<>>,
                                         indexed |-> FALSE,
                                         columns |-> read.columns,
                                         rows    |-> kept])

\* header_line_index when the function is left
header_line_index_at_exit(f) ==
    IF f.exists THEN header_line_index(f.lines) ELSE NoHeader

\* no except clause: an exception leaves the function, nothing is returned
arc_data_dataframe ==
    /\ pc = "start"
    /\ fn = "arc_data_dataframe"
    /\ LET outcome == arc_data_dataframe_call(file)
       IN  /\ df' = IF outcome.exception = "" THEN outcome.table ELSE df
           /\ raised' = (outcome.exception # "")
    /\ header_row' = header_line_index_at_exit(file)
    /\ pc' = "done"
    /\ UNCHANGED <<fn, aeris_df, uwml_df, method, tolerance, merged, file, printed,
                   arc_raw, arcdate, arc_mapping>>

(***************************************************************************)
(* The files given to arc_data_dataframe.  A header names four columns and *)
(* no line has more than four fields.                                      *)
(***************************************************************************)
Join(a, b) == a \o <<",", " ">> \o b

\* StartTime_seconds, lat_DGPS_deg, lon_DGPS_deg, alt_msl_m
HeaderLonThird == Join(Join(HeaderPrefix, lon_DGPS_deg), alt_msl_m)

\* StartTime_seconds, lat_DGPS_deg, alt_msl_m, lon_DGPS_deg
HeaderLonFourth == Join(Join(HeaderPrefix, alt_msl_m), lon_DGPS_deg)

Sentinel99999 == <<"-", "9", "9", "9", "9", "9", ".", "0">>

MapRowLines ==
    {Join(Join(Join(t, la), x), y) :
        t \in {<<"1">>}, la \in {<<"2">>, Sentinel99999},
        x \in {<<"3">>, Sentinel99999}, y \in {<<"4">>, Sentinel99999}}
    \cup {Join(Join(Join(<<"-", "9", "9", "9", "9", "9">>, <<"2">>), <<"3">>), <<"4">>),
          Join(Join(Join(<<"1">>, <<"2">>), <<"-", "7", "7", "7", "7", "7">>), <<>>),
          Join(<<"1">>, <<"2">>)}

MapLineKinds ==
    {<<>>, <<"a">>, HeaderLonThird, HeaderLonFourth,
     <<" ">> \o HeaderLonThird, <<"a">> \o HeaderLonFourth}
    \cup MapRowLines

MapFiles(n) ==
    {[exists |-> FALSE, lines |-> <<>>]}
    \cup {[exists |-> TRUE, lines |-> l] : l \in SeqsUpTo(MapLineKinds, n)}

InitMapReader == InitReader("arc_data_dataframe", MapFiles(MaxMapLines))

NextMapReader == arc_data_dataframe

SpecMapReader == InitMapReader /\ [][NextMapReader]_vars

(***************************************************************************)
(* Claims about arc_data_dataframe.                                        *)
(***************************************************************************)
MapReaderReturned == pc = "done" /\ fn = "arc_data_dataframe" /\ ~raised

\* line i (0-based) starts, once trimmed, with the literal prefix
IsMapHeader(lines, i) ==
    /\ i \in 0..(Len(lines) - 1)
    /\ startswith(strip(lines[i + 1]), HeaderPrefix)

\* the field of raw line n under the column called `name` is null
NullUnder(lines, h, n, name) ==
    LET columns == Fields(lines[h + 1])
        f       == Fields(lines[n])
    IN  \A k \in 1..Len(columns) :
            columns[k] = name => (k > Len(f) \/ f[k] \in map_na_values)

InTable(n) == \E k \in 1..Len(df.rows) : df.rows[k].line = n

\* the header is the first line with the prefix and the rows are in file order
HeaderIsFirstPrefixLine ==
    MapReaderReturned =>
        /\ IsMapHeader(file.lines, header_row)
        /\ \A j \in 0..(header_row - 1) : ~IsMapHeader(file.lines, j)
        /\ df.columns = Fields(file.lines[header_row + 1])
        /\ \A k \in 1..(Len(df.rows) - 1) : df.rows[k].line < df.rows[k + 1].line
        /\ \A k \in 1..Len(df.rows) :
              df.rows[k].line \in MapDataLines(file.lines, header_row)

\* a row is dropped exactly when its second or its third field is null
DropsByPosition ==
    MapReaderReturned =>
        \A n \in MapDataLines(file.lines, header_row) :
            LET f == Fields(file.lines[n])
            IN  InTable(n) <=> /\ Len(f) >= 3
                               /\ f[2] \notin map_na_values
                               /\ f[3] \notin map_na_values

\* C11: arc_data_dataframe takes as header the first line whose trimmed text
\* starts with "StartTime_seconds, lat_DGPS_deg" and returns the data rows in
\* file order, a row being dropped if and only if its latitude or its
\* longitude is null (rows whose other fields are null are kept).
C11_DropsNullLatitudeOrLongitude ==
    MapReaderReturned =>
        /\ IsMapHeader(file.lines, header_row)
        /\ \A j \in 0..(header_row - 1) : ~IsMapHeader(file.lines, j)
        /\ \A k \in 1..(Len(df.rows) - 1) : df.rows[k].line < df.rows[k + 1].line
        /\ \A n \in MapDataLines(file.lines, header_row) :
              InTable(n) <=>
                  /\ ~NullUnder(file.lines, header_row, n, lat_DGPS_deg)
                  /\ ~NullUnder(file.lines, header_row, n, lon_DGPS_deg)

(***************************************************************************)
(* src/geo_map.py: main, the map-generation driver.                        *)
(*                                                                         *)
(* The loop body is three steps: the read (arc_data_dataframe), the        *)
(* rendering (arc_map, add_layer, add_vector_map, the controls and the     *)
(* title) and the save.  main has no except clause: an exception of a step *)
(* leaves main.                                                            *)
(***************************************************************************)
MaxDates == 3       \* the dates of arc_dates a run goes through

arc_dates == <<20240716, 20240717, 20240718, 20240719, 20240721, 20240722, 20240723,
               20240725, 20240726, 20240727, 20240728, 20240729, 20240730, 20240731,
               20240802, 20240803, 20240804>>

NumDates == IF MaxDates < Len(arc_dates) THEN MaxDates ELSE Len(arc_dates)

true_WS_m_s ==
    <<"t", "r", "u", "e", "_", "W", "S", "_", "m", "_", "s">>

true_WD_deg ==
    <<"t", "r", "u", "e", "_", "W", "D", "_", "d", "e", "g">>

CH4_aeris313_ppm ==
    <<"C", "H", "4", "_", "a", "e", "r", "i", "s", "3", "1", "3", "_", "p", "p", "m">>

H2O_aeris313_ppm ==
    <<"H", "2", "O", "_", "a", "e", "r", "i", "s", "3", "1", "3", "_", "p", "p", "m">>

C2H6_aeris313_ppb ==
    <<"C", "2", "H", "6", "_", "a", "e", "r", "i", "s", "3", "1", "3", "_", "p", "p",
      "b">>

C2C1_aeris313 ==
    <<"C", "2", "C", "1", "_", "a", "e", "r", "i", "s", "3", "1", "3">>

CO2_g2401m_ppm ==
    <<"C", "O", "2", "_", "g", "2", "4", "0", "1", "m", "_", "p", "p", "m">>

delta13C_CH4_raw ==
    <<"d", "e", "l", "t", "a", "1", "3", "C", "_", "C", "H", "4", "_", "r", "a", "w">>

\* the columns arc_map, add_layer and add_vector_map take from the table
RenderedColumns ==
    {lat_DGPS_deg, lon_DGPS_deg, CH4_aeris313_ppm, H2O_aeris313_ppm, CO2_g2401m_ppm,
     alt_msl_m, C2H6_aeris313_ppb, C2C1_aeris313, delta13C_CH4_raw, true_WS_m_s,
     true_WD_deg}

\* what the rendering can do with a table: ds[column] of an absent column
\* raises KeyError; with no row the mean location is NaN, which folium.Map
\* refuses (ValueError) in the versions that validate the location
render_outcomes(table) ==
    IF ~(RenderedColumns \subseteq {table.columns[k] : k \in 1..Len(table.columns)})
    THEN {"KeyError"}
    ELSE IF table.rows = <<>> THEN {"ValueError", ""}
    ELSE {""}

(***************************************************************************)
(* The files of arc_raw/: absent, without a header line, complete, with    *)
(* every latitude null, and with four columns only.                        *)
(***************************************************************************)
RECURSIVE JoinAll(_)
JoinAll(texts) ==
    IF Len(texts) = 1 THEN texts[1]
    ELSE Join(texts[1], JoinAll(Tail(texts)))

FullHeader ==
    JoinAll(<<StartTime_seconds, lat_DGPS_deg, lon_DGPS_deg, alt_msl_m, true_WS_m_s,
              true_WD_deg, CH4_aeris313_ppm, H2O_aeris313_ppm, C2H6_aeris313_ppb,
              C2C1_aeris313, CO2_g2401m_ppm, delta13C_CH4_raw>>)

FullRow(lat) ==
    JoinAll(<<<<"1">>, lat>> \o [k \in 1..10 |-> <<"3">>])

DriverFiles ==
    {[exists |-> FALSE, lines |-> <<>>],
     [exists |-> TRUE, lines |-> <<<<"a">>, FullRow(<<"2">>)>>],
     [exists |-> TRUE, lines |-> <<<<"a">>, FullHeader, FullRow(<<"2">>)>>],
     [exists |-> TRUE, lines |-> <<FullHeader, FullRow(Sentinel99999)>>],
     [exists |-> TRUE, lines |-> <<HeaderLonThird, Join(Join(Join(<<"1">>, <<"2">>),
                                                              <<"3">>), <<"4">>)>>]}

\* arc_data_dataframe(file_name) for each file of arc_raw/
arc_data == [f \in DriverFiles |-> arc_data_dataframe_call(f)]

\* for arcdate in arc_dates: arc_data = arc_data_dataframe(file_name); print(...)
main_arc_data_dataframe ==
    /\ pc = "read"
    /\ fn = "main"
    /\ LET outcome == arc_data[arc_raw[arcdate]]
       IN  IF outcome.exception = ""
           THEN /\ df' = outcome.table
                /\ printed' = Append(printed, "Generated folium mapping for")
                /\ raised' = FALSE
                /\ pc' = "render"
           ELSE /\ raised' = TRUE
                /\ pc' = "done"
                /\ UNCHANGED <<df, printed>>
    /\ UNCHANGED <<fn, aeris_df, uwml_df, method, tolerance, merged, file, header_row,
                   arc_raw, arcdate, arc_mapping>>

\* m = arc_map(...); add_layer(...) ...; add_vector_map(...); ...;
\* print("Generating html file...")
main_render ==
    /\ pc = "render"
    /\ fn = "main"
    /\ \E e \in render_outcomes(df) :
          IF e = ""
          THEN /\ printed' = Append(printed, "Generating html file...")
               /\ raised' = FALSE
               /\ pc' = "save"
          ELSE /\ raised' = TRUE
               /\ pc' = "done"
               /\ UNCHANGED printed
    /\ UNCHANGED <<fn, aeris_df, uwml_df, method, tolerance, merged, file, header_row,
                   df, arc_raw, arcdate, arc_mapping>>

\* m.save(filesave); print(f'Successfully saved file: {filesave}'); next date
main_save ==
    /\ pc = "save"
    /\ fn = "main"
    /\ arc_mapping' = Append(arc_mapping, arc_dates[arcdate])
    /\ printed' = Append(printed, "Successfully saved file")
    /\ arcdate' = arcdate + 1
    /\ pc' = IF arcdate < NumDates THEN "read" ELSE "done"
    /\ UNCHANGED <<fn, aeris_df, uwml_df, method, tolerance, merged, file, header_row,
                   df, raised, arc_raw>>

\* arc_data before the first read: no column, no row
NoArcData == [empty |-> TRUE, indexed |-> FALSE, columns |-> <<>>, rows |-> <<>>]

InitMain ==
    /\ pc = "read"
    /\ fn = "main"
    /\ arc_raw \in [1..NumDates -> DriverFiles]
    /\ arcdate = 1
    /\ arc_mapping = <<>>
    /\ aeris_df = <<>>
    /\ uwml_df = <<>>
    /\ method = "nearest"
    /\ tolerance = 1
    /\ merged = NoTable
    /\ file = [exists |-> FALSE, lines |-> <<>>]
    /\ header_row = NoHeader
    /\ df = NoArcData
    /\ printed = <<>>
    /\ raised = FALSE

NextMain == main_arc_data_dataframe \/ main_render \/ main_save

\* a single-threaded script: a step that can be taken is taken
SpecMain == InitMain /\ [][NextMain]_vars /\ WF_vars(NextMain)

(***************************************************************************)
(* Claims about main.                                                      *)
(***************************************************************************)
\* the loop is at date k of the list
Reached(k) == fn = "main" /\ pc = "read" /\ arcdate = k

\* the dates are taken in list order, one at a time: the maps saved are those
\* of the dates before the current one, in list order
MapsInListOrder ==
    fn = "main" =>
        /\ arcdate \in 1..(NumDates + 1)
        /\ arc_mapping = SubSeq(arc_dates, 1, arcdate - 1)
        /\ (pc = "done" /\ ~raised => arcdate = NumDates + 1)

\* main ends with an exception exactly at a date it cannot complete
StopsAtFirstFailure ==
    fn = "main" /\ pc = "done" /\ raised =>
        /\ arcdate \in 1..NumDates
        /\ Len(arc_mapping) = arcdate - 1

\* C12: main() processes the dates strictly in list order, one at a time,
\* each date ending completed (map saved) or abandoned before the next one
\* starts; a date whose input file is missing or has no recognizable header
\* does not stop the run, so every date in the list is eventually reached.
C12_EveryDateIsReached ==
    \A k \in 1..NumDates : <>Reached(k)

====
